---- MODULE Spec2Model ----
(***************************************************************************)
(* A model of blockchain.py: the Blockchain class (chain, pending pool,    *)
(* proof of work, chain validation, conflict resolution) and the request   *)
(* handlers that drive it (mine, new_transaction, full_chain, consensus).  *)
(*                                                                         *)
(* Abstractions, stated once:                                              *)
(*  - Python values that can sit in 'previous_hash' (an int, a hex string, *)
(*    a dict, None) are records of one shape, [type, int, of], so that     *)
(*    Python's == between values of different types is plain equality.     *)
(*  - sha256 over the canonical JSON of a block is collision free here:    *)
(*    the digest of block b is the string value that carries b.            *)
(*  - sha256 over the proof guess is a small mixing function over the      *)
(*    decimal digits of the guess with a two hex character digest; the     *)
(*    difficulty is one leading zero character instead of four.            *)
(*  - time() returns the one value of Times; no property reads a timestamp.*)
(*  - Where handlers run one at a time, a list is its value. Where request  *)
(*    threads interleave, lists are objects: heap holds them, and the pool  *)
(*    and a block's 'transactions' are references into heap.                *)
(***************************************************************************)
EXTENDS Integers, Sequences, FiniteSets, TLC

VARIABLES chain, current_transactions, peers, last, heap, threads

vars == <<chain, current_transactions, peers, last, heap, threads>>

\* Bounds of the model.
MaxChain == 3
MaxPool == 1
MaxForged == 3
MaxLedgerPool == 2
MaxProofInput == 12
MaxCalls == 1

\* Data domains.
Times == {0}
node_identifier == "node"
peer_identifier == "peer"
Senders == {"alice"}
Recipients == {"bob"}
Amounts == {5}
LedgerAmounts == {5, 7}

----------------------------------------------------------------------------
\* Python values held by a block's previous_hash field.

PyInt(n) == [type |-> "int", int |-> n, of |-> <<>>]
PyStr(b) == [type |-> "str", int |-> 0, of |-> <<b>>]
PyDict(b) == [type |-> "dict", int |-> 0, of |-> <<b>>]
PyNone == [type |-> "None", int |-> 0, of |-> <<>>]

\* Truth value of a Python value, as `previous_hash or ...` tests it.
Truthy(v) ==
    \/ v.type = "dict"
    \/ v.type = "str"
    \/ v.type = "int" /\ v.int # 0

\* Blockchain.hash: sha256 hex digest of json.dumps(block, sort_keys=True).
Hash(block) == PyStr(block)

----------------------------------------------------------------------------
\* Proof of work.

RECURSIVE Digits(_)
\* str(n) for a non-negative int, as the f-string renders it.
Digits(n) == IF n < 10 THEN <<n>> ELSE Append(Digits(n \div 10), n % 10)

Mix(h, d) == LET x == (h * 5 + (d + 1) * 11) % 256 IN (x * x + x + 1) % 256

RECURSIVE Sha(_, _)
\* The digest of a digit string, a value of 0..255 (two hex characters).
Sha(s, h) == IF s = <<>> THEN h ELSE Sha(Tail(s), Mix(h, Head(s)))

\* Blockchain.valid_proof.
valid_proof(last_proof, proof) ==
    LET guess == Digits(last_proof) \o Digits(proof)
        guess_hash == Sha(guess, 7)
    IN guess_hash \div 16 = 0

RECURSIVE proof_of_work_from(_, _)
proof_of_work_from(last_proof, proof) ==
    IF valid_proof(last_proof, proof) THEN proof
    ELSE proof_of_work_from(last_proof, proof + 1)

\* proof_of_work with the search started at 1.
proof_of_work_from_one(last_proof) == proof_of_work_from(last_proof, 1)

\* Blockchain.proof_of_work.
proof_of_work(last_proof) == proof_of_work_from(last_proof, 0)

----------------------------------------------------------------------------
\* The ledger.

Transaction(sender, recipient, amount) ==
    [sender |-> sender, recipient |-> recipient, amount |-> amount]

\* Blockchain.last_block.
last_block(c) == c[Len(c)]

\* new_block without the reset of the pool.
new_block_keep_pool(c, pool, previous_hash, proof, t) ==
    LET block == [index |-> Len(c) + 1,
                  timestamp |-> t,
                  transactions |-> pool,
                  proof |-> proof,
                  previous_hash |-> IF Truthy(previous_hash) THEN previous_hash
                                    ELSE Hash(c[Len(c)])]
    IN [chain |-> Append(c, block), current_transactions |-> pool]

\* Blockchain.new_block: the chain and the pool after it.

new_block(c, pool, previous_hash, proof, t) ==
    LET block == [index |-> Len(c) + 1,
                  timestamp |-> t,
                  transactions |-> pool,
                  proof |-> proof,
                  previous_hash |-> IF Truthy(previous_hash) THEN previous_hash
                                    ELSE Hash(c[Len(c)])]
    IN [chain |-> Append(c, block), current_transactions |-> <<>>]

\* Blockchain.__init__: the genesis block on an empty chain.
Blockchain(t) == new_block(<<>>, <<>>, PyInt(1), 100, t)

\* Blockchain.new_transaction: the pool after the append and the return value.
new_transaction(c, pool, sender, recipient, amount) ==
    [current_transactions |-> Append(pool, Transaction(sender, recipient, amount)),
     index |-> last_block(c).index + 1]

----------------------------------------------------------------------------
\* Chain validation.

RECURSIVE valid_chain_loop(_, _, _)
\* The while loop of valid_chain; current_index is the 0-based Python index.
valid_chain_loop(c, prior, current_index) ==
    IF current_index < Len(c)
    THEN LET block == c[current_index + 1]
         IN IF block.previous_hash # Hash(prior) THEN FALSE
            ELSE IF ~valid_proof(prior.proof, block.proof) THEN FALSE
            ELSE valid_chain_loop(c, block, current_index + 1)
    ELSE TRUE

\* valid_chain without the proof of work check.
valid_chain_hash_only(c) ==
    IF Len(c) = 0 THEN [raised |-> TRUE, value |-> FALSE]
    ELSE [raised |-> FALSE,
          value |-> \A i \in 2..Len(c) : c[i].previous_hash = Hash(c[i - 1])]

\* Blockchain.valid_chain: chain[0] raises IndexError on an empty list.
valid_chain(c) ==
    IF Len(c) = 0 THEN [raised |-> TRUE, value |-> FALSE]
    ELSE [raised |-> FALSE, value |-> valid_chain_loop(c, c[1], 1)]

----------------------------------------------------------------------------
\* Conflict resolution.

\* Python's None and a list, for new_chain: <<>> is None, <<c>> is the list c.
None == <<>>

RECURSIVE resolve_loop_first(_, _, _, _)
\* The for loop without the update of max_length.
resolve_loop_first(responses, i, max_length, new_chain) ==
    IF i > Len(responses)
    THEN [raised |-> FALSE, max_length |-> max_length, new_chain |-> new_chain]
    ELSE LET response == responses[i]
         IN IF response.status_code # 200
            THEN resolve_loop_first(responses, i + 1, max_length, new_chain)
            ELSE IF ~(response.length > max_length)
            THEN resolve_loop_first(responses, i + 1, max_length, new_chain)
            ELSE LET valid == valid_chain(response.chain)
                 IN IF valid.raised
                    THEN [raised |-> TRUE, max_length |-> max_length,
                          new_chain |-> new_chain]
                    ELSE IF valid.value
                    THEN resolve_loop_first(responses, i + 1, max_length,
                                            <<response.chain>>)
                    ELSE resolve_loop_first(responses, i + 1, max_length, new_chain)

RECURSIVE resolve_loop_ge(_, _, _, _)
\* The for loop with >= in place of >.
resolve_loop_ge(responses, i, max_length, new_chain) ==
    IF i > Len(responses)
    THEN [raised |-> FALSE, max_length |-> max_length, new_chain |-> new_chain]
    ELSE LET response == responses[i]
         IN IF response.status_code # 200
            THEN resolve_loop_ge(responses, i + 1, max_length, new_chain)
            ELSE IF ~(response.length >= max_length)
            THEN resolve_loop_ge(responses, i + 1, max_length, new_chain)
            ELSE LET valid == valid_chain(response.chain)
                 IN IF valid.raised
                    THEN [raised |-> TRUE, max_length |-> max_length,
                          new_chain |-> new_chain]
                    ELSE IF valid.value
                    THEN resolve_loop_ge(responses, i + 1, response.length,
                                         <<response.chain>>)
                    ELSE resolve_loop_ge(responses, i + 1, max_length, new_chain)

RECURSIVE resolve_loop(_, _, _, _)
\* The for loop of resolve_conflicts over the responses, in enumeration order.
resolve_loop(responses, i, max_length, new_chain) ==
    IF i > Len(responses)
    THEN [raised |-> FALSE, max_length |-> max_length, new_chain |-> new_chain]
    ELSE LET response == responses[i]
         IN IF response.status_code # 200
            THEN resolve_loop(responses, i + 1, max_length, new_chain)
            ELSE IF ~(response.length > max_length)
            THEN resolve_loop(responses, i + 1, max_length, new_chain)
            ELSE LET valid == valid_chain(response.chain)
                 IN IF valid.raised
                    THEN [raised |-> TRUE, max_length |-> max_length,
                          new_chain |-> new_chain]
                    ELSE IF valid.value
                    THEN resolve_loop(responses, i + 1, response.length,
                                      <<response.chain>>)
                    ELSE resolve_loop(responses, i + 1, max_length, new_chain)

RECURSIVE resolve_loop_lenient(_, _, _, _)
\* The for loop with a validation that walks pairs only, so that an empty
\* list passes it.
resolve_loop_lenient(responses, i, max_length, new_chain) ==
    IF i > Len(responses)
    THEN [raised |-> FALSE, max_length |-> max_length, new_chain |-> new_chain]
    ELSE LET response == responses[i]
         IN IF response.status_code = 200 /\ response.length > max_length
               /\ (Len(response.chain) = 0 \/ valid_chain(response.chain).value)
            THEN resolve_loop_lenient(responses, i + 1, response.length,
                                      <<response.chain>>)
            ELSE resolve_loop_lenient(responses, i + 1, max_length, new_chain)

\* resolve_conflicts with `if new_chain is not None` and the lenient loop.
resolve_conflicts_adopt_empty(c, pool, responses) ==
    LET r == resolve_loop_lenient(responses, 1, Len(c), None)
    IN IF r.new_chain # None
       THEN [raised |-> FALSE, replaced |-> TRUE, chain |-> r.new_chain[1],
             current_transactions |-> pool]
       ELSE [raised |-> FALSE, replaced |-> FALSE, chain |-> c,
             current_transactions |-> pool]

\* resolve_conflicts without `return True` after the replacement.
resolve_conflicts_no_return(c, pool, responses) ==
    LET r == resolve_loop(responses, 1, Len(c), None)
    IN IF r.raised
       THEN [raised |-> TRUE, replaced |-> FALSE, chain |-> c,
             current_transactions |-> pool]
       ELSE IF r.new_chain # None /\ Len(r.new_chain[1]) > 0
       THEN [raised |-> FALSE, replaced |-> FALSE, chain |-> r.new_chain[1],
             current_transactions |-> pool]
       ELSE [raised |-> FALSE, replaced |-> FALSE, chain |-> c,
             current_transactions |-> pool]

\* resolve_conflicts with a reset of the pool on replacement.
resolve_conflicts_reset_pool(c, pool, responses) ==
    LET r == resolve_loop(responses, 1, Len(c), None)
    IN IF r.raised
       THEN [raised |-> TRUE, replaced |-> FALSE, chain |-> c,
             current_transactions |-> pool]
       ELSE IF r.new_chain # None /\ Len(r.new_chain[1]) > 0
       THEN [raised |-> FALSE, replaced |-> TRUE, chain |-> r.new_chain[1],
             current_transactions |-> <<>>]
       ELSE [raised |-> FALSE, replaced |-> FALSE, chain |-> c,
             current_transactions |-> pool]

\* Blockchain.resolve_conflicts: the ledger afterwards and the return value;
\* an exception of valid_chain leaves the ledger as it was.
resolve_conflicts(c, pool, responses) ==
    LET r == resolve_loop(responses, 1, Len(c), None)
    IN IF r.raised
       THEN [raised |-> TRUE, replaced |-> FALSE, chain |-> c,
             current_transactions |-> pool]
       ELSE IF r.new_chain # None /\ Len(r.new_chain[1]) > 0
       THEN [raised |-> FALSE, replaced |-> TRUE, chain |-> r.new_chain[1],
             current_transactions |-> pool]
       ELSE [raised |-> FALSE, replaced |-> FALSE, chain |-> c,
             current_transactions |-> pool]

\* full_chain: the /chain response of a node running this program.
full_chain(c) == [status_code |-> 200, length |-> Len(c), chain |-> c]

----------------------------------------------------------------------------
\* What a registered peer may answer to GET /chain.

RECURSIVE first_invalid(_, _)
first_invalid(last_proof, proof) ==
    IF valid_proof(last_proof, proof) THEN first_invalid(last_proof, proof + 1)
    ELSE proof

\* The block a correct peer appends to the chain c.
linked_block(c) ==
    [index |-> Len(c) + 1,
     timestamp |-> 0,
     transactions |-> <<Transaction("0", peer_identifier, 1)>>,
     proof |-> proof_of_work(last_block(c).proof),
     previous_hash |-> Hash(last_block(c))]

RECURSIVE linked_chain(_)
\* A chain of n blocks with every hash link and every proof in order.
linked_chain(n) ==
    IF n = 0 THEN <<>>
    ELSE IF n = 1 THEN Blockchain(0).chain
    ELSE LET c == linked_chain(n - 1) IN Append(c, linked_block(c))

\* The same chain with the last block's previous_hash tampered with.
tampered_hash(c) ==
    LET n == Len(c)
        other == [c[n - 1] EXCEPT !.timestamp = c[n - 1].timestamp + 1]
    IN [c EXCEPT ![n].previous_hash = Hash(other)]

\* The same chain with a last proof that does not verify.
unproven(c) ==
    LET n == Len(c)
    IN [c EXCEPT ![n].proof = first_invalid(c[n - 1].proof, 0)]

\* The same chain with a last index that is not its position.
misnumbered(c) ==
    LET n == Len(c)
    IN [c EXCEPT ![n].index = n + 1]

peer_chains ==
    {linked_chain(n) : n \in 0..MaxForged}
        \cup {tampered_hash(linked_chain(2)), unproven(linked_chain(2)),
              misnumbered(linked_chain(2))}

unreachable == [status_code |-> 503, length |-> 0, chain |-> <<>>]

\* One-block chains with any proof in their block, reported as longer than
\* any chain of this node.
proof_responses ==
    {[status_code |-> 200, length |-> MaxChain + 1,
      chain |-> <<[Blockchain(0).chain[1] EXCEPT !.proof = a]>>] :
        a \in 0..MaxProofInput}

peer_responses ==
    {[status_code |-> 200, length |-> l, chain |-> c] :
        <<l, c>> \in {x \in (0..(MaxForged + 1)) \X peer_chains :
                        x[1] \in {Len(x[2]), MaxForged + 1}}}
        \cup {unreachable}

----------------------------------------------------------------------------
\* State.

nodes == DOMAIN peers

\* The response of peer p, as requests.get returns it.
response_of(p) ==
    IF peers[p].kind = "node" THEN full_chain(peers[p].chain)
    ELSE [status_code |-> peers[p].status_code, length |-> peers[p].length,
          chain |-> peers[p].chain]

\* The enumeration orders of the set self.nodes.
orders(S) ==
    {o \in [1..Cardinality(S) -> S] : \A i, j \in DOMAIN o : i # j => o[i] # o[j]}

responses_in(o) == [i \in DOMAIN o |-> response_of(o[i])]

\* What the last call did: its name, the length of the chain when it started,
\* the integer it returned (0 if none), the boolean it returned (resolve's
\* replaced, valid_chain's verdict; FALSE if none) and whether an exception
\* ended it.
Outcome(op, length, index, replaced, raised) ==
    [op |-> op, length |-> length, index |-> index, replaced |-> replaced,
     raised |-> raised]

crafted(r) ==
    [kind |-> "crafted", status_code |-> r.status_code, length |-> r.length,
     chain |-> r.chain, current_transactions |-> <<>>]

node(ledger) ==
    [kind |-> "node", status_code |-> 200, length |-> 0,
     chain |-> ledger.chain, current_transactions |-> ledger.current_transactions]

InitLocal ==
    /\ \E t \in Times :
          /\ chain = Blockchain(t).chain
          /\ current_transactions = Blockchain(t).current_transactions
    /\ last = Outcome("init", 0, 0, FALSE, FALSE)
    /\ heap = <<>>
    /\ threads = <<>>

Init ==
    /\ InitLocal
    /\ peers = [p \in {"p1", "p2"} |-> crafted(unreachable)]

\* One registered peer.
InitSingle ==
    /\ InitLocal
    /\ peers = [p \in {"p1"} |-> crafted(unreachable)]

InitPair ==
    /\ InitLocal
    /\ \E t \in Times : peers = [p \in {"B"} |-> node(Blockchain(t))]

----------------------------------------------------------------------------
\* The request handlers of this node.

\* POST /transactions/new with a well-formed payload, amounts drawn from S.
Submit(S, bound) ==
    /\ Len(current_transactions) < bound
    /\ \E sender \in Senders, recipient \in Recipients, amount \in S :
          LET r == new_transaction(chain, current_transactions, sender, recipient, amount)
          IN /\ current_transactions' = r.current_transactions
             /\ last' = Outcome("new_transaction", Len(chain), r.index, FALSE, FALSE)
    /\ UNCHANGED <<chain, peers, heap, threads>>

NewTransaction == Submit(Amounts, MaxPool)

LedgerNewTransaction == Submit(LedgerAmounts, MaxLedgerPool)

\* mine applied to a ledger: solve, reward, new_block(last_block, proof).
mine(c, pool, identifier, t) ==
    LET prior == last_block(c)
        last_proof == prior.proof
        proof == proof_of_work(last_proof)
        rewarded == new_transaction(c, pool, "0", identifier, 1)
    IN new_block(c, rewarded.current_transactions, PyDict(prior), proof, t)

\* GET /mine.
Mine ==
    /\ Len(chain) < MaxChain
    /\ \E t \in Times :
          LET r == mine(chain, current_transactions, node_identifier, t)
          IN /\ chain' = r.chain
             /\ current_transactions' = r.current_transactions
             /\ last' = Outcome("mine", Len(chain), 0, FALSE, FALSE)
    /\ UNCHANGED <<peers, heap, threads>>

\* GET /nodes/resolve.
Consensus ==
    /\ \E o \in orders(nodes) :
          LET r == resolve_conflicts(chain, current_transactions, responses_in(o))
          IN /\ chain' = r.chain
             /\ current_transactions' = r.current_transactions
             /\ last' = Outcome("resolve", Len(chain), 0, r.replaced, r.raised)
    /\ UNCHANGED <<peers, heap, threads>>

\* Blockchain.new_block called on its own, with any proof and previous hash.
SealBlock ==
    /\ Len(chain) < MaxChain
    /\ \E t \in Times,
          proof \in {proof_of_work(last_block(chain).proof), 0},
          previous_hash \in {PyNone, Hash(last_block(chain)), PyDict(last_block(chain))} :
          LET r == new_block(chain, current_transactions, previous_hash, proof, t)
          IN /\ chain' = r.chain
             /\ current_transactions' = r.current_transactions
             /\ last' = Outcome("new_block", Len(chain), 0, FALSE, FALSE)
    /\ UNCHANGED <<peers, heap, threads>>

\* Blockchain.valid_chain called on the chain a peer answered.
ValidChain(p) ==
    /\ response_of(p).status_code = 200
    /\ LET r == valid_chain(response_of(p).chain)
       IN last' = Outcome("valid_chain", Len(chain), 0, r.value, r.raised)
    /\ UNCHANGED <<chain, current_transactions, peers, heap, threads>>

\* Blockchain.valid_chain called on this node's own chain.
ValidOwnChain ==
    /\ LET r == valid_chain(chain)
       IN last' = Outcome("valid_own_chain", Len(chain), 0, r.value, r.raised)
    /\ UNCHANGED <<chain, current_transactions, peers, heap, threads>>

----------------------------------------------------------------------------
\* The peers.

Env == Outcome("peer", 0, 0, FALSE, FALSE)

\* A registered peer's answer changes.
PeerRespond(p) ==
    /\ peers[p].kind = "crafted"
    /\ \E r \in peer_responses :
          /\ crafted(r) # peers[p]
          /\ peers' = [peers EXCEPT ![p] = crafted(r)]
    /\ last' = Env
    /\ UNCHANGED <<chain, current_transactions, heap, threads>>

\* A registered peer answers a one-block chain with a proof of its choice.
PeerOffer(p) ==
    /\ peers[p].kind = "crafted"
    /\ \E r \in proof_responses :
          /\ crafted(r) # peers[p]
          /\ peers' = [peers EXCEPT ![p] = crafted(r)]
    /\ last' = Env
    /\ UNCHANGED <<chain, current_transactions, heap, threads>>

\* A peer running this program takes a transaction.
PeerNewTransaction(p) ==
    /\ peers[p].kind = "node"
    /\ Len(peers[p].current_transactions) < MaxPool
    /\ \E sender \in Senders, recipient \in Recipients, amount \in Amounts :
          LET r == new_transaction(peers[p].chain, peers[p].current_transactions,
                                   sender, recipient, amount)
          IN peers' = [peers EXCEPT ![p].current_transactions = r.current_transactions]
    /\ last' = Env
    /\ UNCHANGED <<chain, current_transactions, heap, threads>>

\* A peer running this program mines.
PeerMine(p) ==
    /\ peers[p].kind = "node"
    /\ Len(peers[p].chain) < MaxChain + 1
    /\ \E t \in Times :
          LET r == mine(peers[p].chain, peers[p].current_transactions, peer_identifier, t)
          IN peers' = [peers EXCEPT ![p] = node(r)]
    /\ last' = Env
    /\ UNCHANGED <<chain, current_transactions, heap, threads>>

----------------------------------------------------------------------------
\* Request threads. The server handles each request in a thread of its own;
\* a step is one read or one write of the shared Blockchain object.

\* A thread between two requests, after `calls` requests of its handler.
Idle(handler, calls) ==
    [handler |-> handler, pc |-> "idle", calls |-> calls, last_block |-> <<>>,
     proof |-> 0, ref |-> 0, index |-> 0, block |-> <<>>, max_length |-> 0,
     new_chain |-> None]

\* The ledger of a new Blockchain with its lists as objects: list 1 went into
\* the genesis block, list 2 is the pool.
InitObjects ==
    /\ \E t \in Times :
          chain = [i \in {1} |-> [Blockchain(t).chain[1] EXCEPT !.transactions = 1]]
    /\ heap = <<<<>>, <<>>>>
    /\ current_transactions = 2
    /\ last = Outcome("init", 0, 0, FALSE, FALSE)

\* The transaction the k-th request of thread t submits.
submitted(t, k) == Transaction(t, "bob", k)

reward == Transaction("0", node_identifier, 1)

\* The list new_block puts into the block, with a copy in place of the list.
transactions_copied(h, ref) == [heap |-> Append(h, h[ref]), ref |-> Len(h) + 1]

\* 'transactions': self.current_transactions puts the pool's list itself into
\* the block.
transactions_of(h, ref) == [heap |-> h, ref |-> ref]

\* mine, line 190-192: read the last block and solve against its proof.
MineLastBlock(t) ==
    /\ threads[t].handler = "mine"
    /\ threads[t].pc = "idle"
    /\ threads[t].calls < MaxCalls
    /\ threads' = [threads EXCEPT ![t].pc = "reward_load",
                                  ![t].last_block = <<last_block(chain)>>,
                                  ![t].proof = proof_of_work(last_block(chain).proof)]
    /\ UNCHANGED <<chain, current_transactions, heap, peers, last>>

\* new_transaction, line 51: read self.current_transactions.
MineRewardLoad(t) ==
    /\ threads[t].handler = "mine"
    /\ threads[t].pc = "reward_load"
    /\ threads' = [threads EXCEPT ![t].pc = "reward_append",
                                  ![t].ref = current_transactions]
    /\ UNCHANGED <<chain, current_transactions, heap, peers, last>>

\* new_transaction, line 51-56: append the reward to the list read.
MineRewardAppend(t) ==
    /\ threads[t].handler = "mine"
    /\ threads[t].pc = "reward_append"
    /\ heap' = [heap EXCEPT ![threads[t].ref] = Append(@, reward)]
    /\ threads' = [threads EXCEPT ![t].pc = "block_index"]
    /\ UNCHANGED <<chain, current_transactions, peers, last>>

\* new_block, line 29: len(self.chain) + 1.
MineBlockIndex(t) ==
    /\ threads[t].handler = "mine"
    /\ threads[t].pc = "block_index"
    /\ threads' = [threads EXCEPT ![t].pc = "block_transactions",
                                  ![t].index = Len(chain) + 1]
    /\ UNCHANGED <<chain, current_transactions, heap, peers, last>>

\* new_block, line 30-34: the rest of the block, with the pool's list in it.
MineBlockTransactions(t) ==
    /\ threads[t].handler = "mine"
    /\ threads[t].pc = "block_transactions"
    /\ \E ts \in Times :
          LET previous_hash == PyDict(threads[t].last_block[1])
              tr == transactions_of(heap, current_transactions)
              block == [index |-> threads[t].index,
                        timestamp |-> ts,
                        transactions |-> tr.ref,
                        proof |-> threads[t].proof,
                        previous_hash |-> IF Truthy(previous_hash) THEN previous_hash
                                          ELSE Hash(chain[Len(chain)])]
          IN /\ heap' = tr.heap
             /\ threads' = [threads EXCEPT ![t].pc = "reset", ![t].block = <<block>>]
    /\ UNCHANGED <<chain, current_transactions, peers, last>>

\* new_block, line 37: self.current_transactions = [].
MineReset(t) ==
    /\ threads[t].handler = "mine"
    /\ threads[t].pc = "reset"
    /\ heap' = Append(heap, <<>>)
    /\ current_transactions' = Len(heap) + 1
    /\ threads' = [threads EXCEPT ![t].pc = "append"]
    /\ UNCHANGED <<chain, peers, last>>

\* new_block, line 38, and the response of mine.
MineAppend(t) ==
    /\ threads[t].handler = "mine"
    /\ threads[t].pc = "append"
    /\ chain' = Append(chain, threads[t].block[1])
    /\ threads' = [threads EXCEPT ![t] = Idle("mine", threads[t].calls + 1)]
    /\ UNCHANGED <<current_transactions, heap, peers, last>>

\* Some thread takes a step of a mine request.
MineStep ==
    \/ \E t \in DOMAIN threads : MineLastBlock(t)
    \/ \E t \in DOMAIN threads : MineRewardLoad(t)
    \/ \E t \in DOMAIN threads : MineRewardAppend(t)
    \/ \E t \in DOMAIN threads : MineBlockIndex(t)
    \/ \E t \in DOMAIN threads : MineBlockTransactions(t)
    \/ \E t \in DOMAIN threads : MineReset(t)
    \/ \E t \in DOMAIN threads : MineAppend(t)

\* POST /transactions/new, line 51: read self.current_transactions.
SubmitLoad(t) ==
    /\ threads[t].handler = "new_transaction"
    /\ threads[t].pc = "idle"
    /\ threads[t].calls < MaxCalls
    /\ threads' = [threads EXCEPT ![t].pc = "append", ![t].ref = current_transactions]
    /\ UNCHANGED <<chain, current_transactions, heap, peers, last>>

\* line 51-55: append the transaction to the list read.
SubmitAppend(t) ==
    /\ threads[t].handler = "new_transaction"
    /\ threads[t].pc = "append"
    /\ heap' = [heap EXCEPT ![threads[t].ref] =
                                Append(@, submitted(t, threads[t].calls + 1))]
    /\ threads' = [threads EXCEPT ![t].pc = "return"]
    /\ UNCHANGED <<chain, current_transactions, peers, last>>

\* line 56 and the response: read the last block's index.
SubmitReturn(t) ==
    /\ threads[t].handler = "new_transaction"
    /\ threads[t].pc = "return"
    /\ threads' = [threads EXCEPT ![t] = Idle("new_transaction", threads[t].calls + 1)]
    /\ UNCHANGED <<chain, current_transactions, heap, peers, last>>

\* Some thread takes a step of a new_transaction request.
SubmitStep ==
    \/ \E t \in DOMAIN threads : SubmitLoad(t)
    \/ \E t \in DOMAIN threads : SubmitAppend(t)
    \/ \E t \in DOMAIN threads : SubmitReturn(t)

\* resolve_conflicts, line 153-157: max_length = len(self.chain).
ResolveStart(t) ==
    /\ threads[t].handler = "consensus"
    /\ threads[t].pc = "idle"
    /\ threads[t].calls < MaxCalls
    /\ threads' = [threads EXCEPT ![t].pc = "fetch", ![t].max_length = Len(chain)]
    /\ UNCHANGED <<chain, current_transactions, heap, peers, last>>

\* line 160-170: fetch and validate the peers' chains; an exception ends the
\* request.
ResolveFetch(t) ==
    /\ threads[t].handler = "consensus"
    /\ threads[t].pc = "fetch"
    /\ \E o \in orders(nodes) :
          LET r == resolve_loop(responses_in(o), 1, threads[t].max_length, None)
          IN threads' =
                IF r.raised
                THEN [threads EXCEPT ![t] = Idle("consensus", threads[t].calls + 1)]
                ELSE [threads EXCEPT ![t].pc = "replace",
                                     ![t].max_length = r.max_length,
                                     ![t].new_chain = r.new_chain]
    /\ UNCHANGED <<chain, current_transactions, heap, peers, last>>

\* The lists of a chain parsed from a response, as new objects after h.
parsed_lists(c) == [i \in 1..Len(c) |-> c[i].transactions]

parsed_chain(c, h) == [i \in 1..Len(c) |-> [c[i] EXCEPT !.transactions = Len(h) + i]]

\* line 172-176 and the response of consensus.
ResolveReplace(t) ==
    /\ threads[t].handler = "consensus"
    /\ threads[t].pc = "replace"
    /\ IF threads[t].new_chain # None /\ Len(threads[t].new_chain[1]) > 0
       THEN /\ chain' = parsed_chain(threads[t].new_chain[1], heap)
            /\ heap' = heap \o parsed_lists(threads[t].new_chain[1])
       ELSE UNCHANGED <<chain, heap>>
    /\ threads' = [threads EXCEPT ![t] = Idle("consensus", threads[t].calls + 1)]
    /\ UNCHANGED <<current_transactions, peers, last>>

\* Some thread takes a step of a consensus request.
ResolveStep ==
    \/ \E t \in DOMAIN threads : ResolveStart(t)
    \/ \E t \in DOMAIN threads : ResolveFetch(t)
    \/ \E t \in DOMAIN threads : ResolveReplace(t)

----------------------------------------------------------------------------
\* Specifications.

\* One node and two peers that may answer anything.
Next ==
    \/ NewTransaction
    \/ Mine
    \/ Consensus
    \/ \E p \in nodes : PeerRespond(p)

Spec == Init /\ [][Next]_vars

\* Two nodes running this program, the second registered as the first's peer.
NextPair ==
    \/ NewTransaction
    \/ Mine
    \/ Consensus
    \/ \E p \in nodes : PeerNewTransaction(p)
    \/ \E p \in nodes : PeerMine(p)

SpecPair == InitPair /\ [][NextPair]_vars

\* The ledger alone: transactions and blocks, with any caller of new_block.
NextLedger ==
    \/ LedgerNewTransaction
    \/ SealBlock

SpecLedger == Init /\ [][NextLedger]_vars

\* valid_chain on its own: on what the one peer answers and on the own chain.
NextValidate ==
    \/ NewTransaction
    \/ Mine
    \/ \E p \in nodes : PeerRespond(p)
    \/ \E p \in nodes : ValidChain(p)
    \/ ValidOwnChain

SpecValidate == InitSingle /\ [][NextValidate]_vars

\* proof_of_work on any last proof: the node adopts a one-block chain with a
\* proof of the peer's choice and mines on it.
NextProof ==
    \/ Mine
    \/ Consensus
    \/ \E p \in nodes : PeerOffer(p)

SpecProof == InitSingle /\ [][NextProof]_vars

\* One mine request at a time, with new_transaction requests in other threads.
InitSubmitMine ==
    /\ InitObjects
    /\ peers = <<>>
    /\ threads = [t \in {"m1", "s1", "s2"} |->
                     IF t = "m1" THEN Idle("mine", 0) ELSE Idle("new_transaction", 0)]

NextSubmitMine == MineStep \/ SubmitStep

SpecSubmitMine == InitSubmitMine /\ [][NextSubmitMine]_vars

\* Two threads of mine requests and one of new_transaction requests.
InitMiners ==
    /\ InitObjects
    /\ peers = <<>>
    /\ threads = [t \in {"m1", "m2", "s1"} |->
                     IF t = "s1" THEN Idle("new_transaction", 0) ELSE Idle("mine", 0)]

NextMiners == MineStep \/ SubmitStep

SpecMiners == InitMiners /\ [][NextMiners]_vars

\* A thread of consensus requests and a thread of mine requests; the one peer
\* answers a correctly linked chain and reports its true length.
InitResolveMine ==
    /\ InitObjects
    /\ \E n \in 1..MaxForged :
          peers = [p \in {"p1"} |-> crafted(full_chain(linked_chain(n)))]
    /\ threads = [t \in {"r1", "m1"} |->
                     IF t = "r1" THEN Idle("consensus", 0) ELSE Idle("mine", 0)]

NextResolveMine == ResolveStep \/ MineStep

SpecResolveMine == InitResolveMine /\ [][NextResolveMine]_vars

----------------------------------------------------------------------------
\* Properties.

\* A candidate chain passes validation: valid_chain returns True.
Passes(c) == ~valid_chain(c).raised /\ valid_chain(c).value

\* The answers resolve_conflicts reads: the peers that answer 200.
Answers == {r \in {response_of(p) : p \in nodes} : r.status_code = 200}

\* The answers that report more blocks than the chain holds.
Longer == {r \in Answers : r.length > Len(chain)}

\* C1: every block after the first has previous_hash equal to the digest of
\* the block before it.
C1_HashLinked ==
    \A i \in 2..Len(chain) : chain[i].previous_hash = Hash(chain[i - 1])

\* C2: every block after the first has a proof that verifies against the
\* proof of the block before it.
C2_ProofLinked ==
    \A i \in 2..Len(chain) : valid_proof(chain[i - 1].proof, chain[i].proof)

\* A chain adopted from a peer and then extended by mine.
C2_Witness ==
    /\ last.op = "mine"
    /\ Len(chain) >= 3
    /\ chain[2].previous_hash.type = "str"

\* C3: the chain is never empty, and after construction it is the genesis
\* block alone.
C3_ChainNeverEmpty ==
    /\ Len(chain) >= 1
    /\ last.op = "init" =>
          /\ Len(chain) = 1
          /\ chain[1].index = 1
          /\ chain[1].proof = 100
          /\ chain[1].previous_hash = PyInt(1)
          /\ chain[1].transactions = <<>>

\* resolve has run against an empty chain reported as longer than the chain.
C3_Witness ==
    /\ last.op = "resolve"
    /\ \E r \in Answers : r.chain = <<>> /\ r.length > last.length

\* C4: a resolve that meets no answer reporting more blocks than the chain
\* holds returns False and leaves the chain as it was.
C4_NoLongerNoReplace ==
    [][(last'.op = "resolve" /\ Longer = {})
          => (~last'.replaced /\ ~last'.raised /\ chain' = chain)]_vars

\* resolve has declined a valid chain of another content and equal length.
C4_Witness ==
    /\ last.op = "resolve"
    /\ ~last.replaced
    /\ \A r \in Answers : r.length <= last.length
    /\ \E r \in Answers :
          r.length = last.length /\ Passes(r.chain) /\ r.chain # chain

\* C5: a resolve whose longer answers all fail validation returns False as an
\* ordinary result and leaves the chain as it was.
C5_InvalidLongerRejected ==
    [][(last'.op = "resolve" /\ \A r \in Longer : ~Passes(r.chain))
          => (~last'.raised /\ ~last'.replaced /\ chain' = chain)]_vars

\* C6: resolve on a node whose only peer runs this program and holds a
\* longer chain returns True and adopts the peer's chain.
C6_LongerPeerAdopted ==
    [][(last'.op = "resolve" /\ \A p \in nodes : Len(peers[p].chain) > Len(chain))
          => (last'.replaced /\ \A p \in nodes : chain' = peers[p].chain)]_vars

\* C7: the chain resolve adopts is an answer that passes validation and whose
\* reported length is the greatest among the longer answers that pass it; and
\* resolve adopts one whenever such an answer exists and nothing is raised.
C7_HighestValidWins ==
    [][last'.op = "resolve" =>
          LET eligible == {r \in Longer : Passes(r.chain)}
          IN /\ last'.replaced =>
                   \E r \in eligible :
                      /\ chain' = r.chain
                      /\ \A q \in eligible : q.length <= r.length
             /\ (eligible # {} /\ ~last'.raised) => last'.replaced]_vars

\* resolve has chosen between two valid longer answers of different lengths.
C7_Witness ==
    /\ last.op = "resolve"
    /\ last.replaced
    /\ \E r, q \in Answers :
          /\ Passes(r.chain) /\ Passes(q.chain)
          /\ q.length > last.length
          /\ r.length > q.length
          /\ r.chain # q.chain
          /\ chain = r.chain

\* C8: resolve leaves the pending pool as it was.
C8_ResolveKeepsPool ==
    [][last'.op = "resolve" => current_transactions' = current_transactions]_vars

\* resolve has replaced the chain while transactions were pending.
C8_Witness ==
    /\ last.op = "resolve"
    /\ last.replaced
    /\ current_transactions # <<>>

\* C9: new_block empties the pool, lengthens the chain by one block and puts
\* the pool, in order, into the new last block.
C9_SealMovesPool ==
    [][last'.op = "new_block" =>
          /\ current_transactions' = <<>>
          /\ Len(chain') = Len(chain) + 1
          /\ SubSeq(chain', 1, Len(chain)) = chain
          /\ last_block(chain').transactions = current_transactions]_vars

\* new_block has sealed two different transactions.
C9_Witness ==
    /\ last.op = "new_block"
    /\ current_transactions = <<>>
    /\ Len(last_block(chain).transactions) = 2
    /\ last_block(chain).transactions[1] # last_block(chain).transactions[2]

\* C10: new_transaction appends one transaction to the end of the pool, leaves
\* the chain as it was and returns the length of the chain plus one.
C10_SubmitReturnsNextIndex ==
    [][last'.op = "new_transaction" =>
          /\ Len(current_transactions') = Len(current_transactions) + 1
          /\ SubSeq(current_transactions', 1, Len(current_transactions))
                = current_transactions
          /\ chain' = chain
          /\ last'.index = Len(chain) + 1]_vars

\* The condition of valid_chain on a candidate: every block after the first
\* names the digest of the block before it and proves its work against it.
PairsInOrder(c) ==
    \A i \in 2..Len(c) :
        /\ c[i].previous_hash = Hash(c[i - 1])
        /\ valid_proof(c[i - 1].proof, c[i].proof)

\* C11: valid_chain returns True exactly for the candidates whose consecutive
\* blocks are all in order, so for every one-block chain and for the chain of
\* a new ledger, and leaves the chain and the pool as they were.
C11_ValidateIffPairsInOrder ==
    [][/\ last'.op = "valid_chain" =>
             \A p \in nodes :
                /\ ~last'.raised
                /\ last'.replaced <=> PairsInOrder(response_of(p).chain)
                /\ chain' = chain
                /\ current_transactions' = current_transactions
       /\ last'.op = "valid_own_chain" =>
             /\ ~last'.raised
             /\ last'.replaced <=> PairsInOrder(chain)
             /\ Len(chain) = 1 => last'.replaced
             /\ chain' = chain
             /\ current_transactions' = current_transactions]_vars

\* C12: the proof mine puts into the new block is the smallest natural number
\* that verifies against the proof of the block before it.
C12_SolveIsSmallest ==
    [][last'.op = "mine" =>
          LET a == last_block(chain).proof
              p == last_block(chain').proof
          IN /\ valid_proof(a, p)
             /\ \A q \in 0..(p - 1) : ~valid_proof(a, q)]_vars

\* mine has solved against a proof a peer chose, and the search took steps.
C12_Witness ==
    /\ last.op = "mine"
    /\ Len(chain) = 2
    /\ chain[1].proof # 100
    /\ chain[2].proof > 0

\* C13: the block at position i of the chain has index i.
C13_IndexIsPosition ==
    \A i \in 1..Len(chain) : chain[i].index = i

C18_ReplacementLengthens ==
    [][(last'.op = "resolve" /\ last'.replaced) => Len(chain') > Len(chain)]_vars

\* The places tx holds in the sealed blocks of the chain and in the pool.
Places(l, tx) == {k \in 1..Len(l) : l[k] = tx}

InBlocks(tx) ==
    UNION {{<<i, k>> : k \in Places(heap[chain[i].transactions], tx)} :
              i \in 1..Len(chain)}

InPool(tx) == Places(heap[current_transactions], tx)

\* The transactions that new_transaction requests have appended so far.
Appended ==
    UNION {{submitted(t, k) :
                k \in 1..(threads[t].calls + (IF threads[t].pc = "return" THEN 1 ELSE 0))} :
              t \in {u \in DOMAIN threads : threads[u].handler = "new_transaction"}}

\* A mine request holds a block it has built and not yet appended, after
\* having replaced the pool.
Sealing == \E t \in DOMAIN threads : threads[t].pc = "append"

\* C14: with new_transaction requests interleaved with one mine request at a
\* time, every transaction appended is in exactly one place, a sealed block or
\* the pool, whenever no block is between leaving the pool and joining the chain.
C14_ExactlyOnce ==
    ~Sealing =>
        \A tx \in Appended : Cardinality(InBlocks(tx)) + Cardinality(InPool(tx)) = 1

\* A transaction was appended to a list that mine had already put into a block:
\* the sealed block holds it after the reward; another is in the pool.
C14_Witness ==
    /\ ~Sealing
    /\ \E i \in 2..Len(chain) :
          LET l == heap[chain[i].transactions]
          IN /\ Len(l) >= 2
             /\ l[Len(l)] \in Appended
             /\ l[Len(l) - 1] = reward
    /\ \E tx \in Appended : InPool(tx) # {}

\* C15: a consensus request replaces the chain only with a candidate of more
\* blocks than the chain has at the step of the replacement.
C15_ReplaceOnlyLonger ==
    [][\A t \in DOMAIN threads :
          (/\ threads[t].pc = "replace"
           /\ threads'[t].pc = "idle"
           /\ threads[t].new_chain # None)
             => /\ threads[t].max_length = Len(threads[t].new_chain[1])
                /\ Len(threads[t].new_chain[1]) > Len(chain)]_vars

\* C16: under interleaved mine requests every block's proof verifies against
\* the proof of the block before it, and no two blocks were built on the same
\* last block.
C16_ConcurrentMinesLinked ==
    \A i \in 2..Len(chain) :
        /\ valid_proof(chain[i - 1].proof, chain[i].proof)
        /\ \A j \in 2..Len(chain) :
              j # i => chain[j].previous_hash # chain[i].previous_hash

\* The reward transactions in list l.
Rewards(l) == {k \in 1..Len(l) : l[k].sender = "0"}

\* C19: every block mine appended holds exactly one reward, the reward is
\* `reward`, and between requests the pool holds none.
C19_OneRewardPerBlock ==
    /\ \A i \in 2..Len(chain) :
          LET l == heap[chain[i].transactions]
          IN /\ Cardinality(Rewards(l)) = 1
             /\ \A k \in Rewards(l) : l[k] = reward
    /\ (\A t \in DOMAIN threads : threads[t].pc = "idle")
          => Rewards(heap[current_transactions]) = {}

====
